---- MODULE Spec2Model ----
(***************************************************************************)
(* Tile grid construction and shape binning (src/src/main.rs), and the     *)
(* bounding-box engine (src/src/bbox.rs, src/src/shapes.rs).               *)
(*                                                                         *)
(* main.rs works on layout21's raw types (Point, BoundBox, Shape) and on   *)
(* the geo crate's Rect/Polygon with its Intersects predicate; both crates *)
(* are modelled by what their functions compute.  bbox.rs and shapes.rs    *)
(* are the repository's own types.                                         *)
(***************************************************************************)
EXTENDS Integers, Sequences, FiniteSets, TLC

(***************************************************************************)
(* Bounds of the model.                                                    *)
(***************************************************************************)
MaxNeg == 1
MaxCoord == 2
MaxElems == 2
MaxTextureDim == 3
MaxWidth == 2
MaxPoints == 3
MaxOps == 2
MaxDrawEvents == 3

Coords == (0 - MaxNeg)..MaxCoord
TextureDims == 1..MaxTextureDim

(***************************************************************************)
(* Small helpers.                                                          *)
(***************************************************************************)
Min2(a, b) == IF a <= b THEN a ELSE b
Max2(a, b) == IF a >= b THEN a ELSE b

P(x, y) == [x |-> x, y |-> y]

RECURSIVE Reverse(_)
Reverse(s) == IF s = <<>> THEN <<>> ELSE Append(Reverse(Tail(s)), Head(s))

\* raw::Point::shift (layout21) as called at main.rs:479-480
PointShift(pt, p) == P(p.x + pt.x, p.y + pt.y)

(***************************************************************************)
(* Primitives of a batch: raw::Shape::{Rect, Polygon, Path}.               *)
(***************************************************************************)
Rect(p0, p1) == [kind |-> "Rect", points |-> <<p0, p1>>, width |-> 0]
Polygon(points) == [kind |-> "Polygon", points |-> points, width |-> 0]
Path(points, width) == [kind |-> "Path", points |-> points, width |-> width]

(***************************************************************************)
(* layout21 BoundBox: p0 is the minimum corner, p1 the maximum corner.     *)
(* BoundBox::empty() holds (isize::MAX, isize::MAX), (isize::MIN,          *)
(* isize::MIN); ISizeMax stands for isize::MAX (any value above every      *)
(* coordinate of the model behaves the same under min/max/compare).        *)
(***************************************************************************)
ISizeMax == 1000000
ISizeMin == 0 - ISizeMax - 1

BoundBoxEmpty == [p0 |-> P(ISizeMax, ISizeMax), p1 |-> P(ISizeMin, ISizeMin)]

BoundBoxIsEmpty(b) == b.p0.x > b.p1.x \/ b.p0.y > b.p1.y

BoundBoxUnion(a, b) ==
    [p0 |-> P(Min2(a.p0.x, b.p0.x), Min2(a.p0.y, b.p0.y)),
     p1 |-> P(Max2(a.p1.x, b.p1.x), Max2(a.p1.y, b.p1.y))]

RECURSIVE PointsBoundBox(_)
PointsBoundBox(pts) ==
    IF pts = <<>> THEN BoundBoxEmpty
    ELSE BoundBoxUnion([p0 |-> Head(pts), p1 |-> Head(pts)], PointsBoundBox(Tail(pts)))

\* raw::Shape::bbox: Rect from its two corners, Polygon and Path from their
\* point lists (for a Path that is the centerline, not the stroked outline).
RawShapeBBox(inner) == PointsBoundBox(inner.points)

\* the fold of main.rs:269-272
RECURSIVE FlattenedBBox(_)
FlattenedBBox(elems) ==
    IF elems = <<>> THEN BoundBoxEmpty
    ELSE BoundBoxUnion(RawShapeBBox(elems[Len(elems)]),
                       FlattenedBBox(SubSeq(elems, 1, Len(elems) - 1)))

(***************************************************************************)
(* geo::Rect<i64>, geo::Polygon<i64> and geo::Intersects.                  *)
(***************************************************************************)
\* geo::Rect::new orders the two corners
GeoRectNew(c1, c2) ==
    [min |-> P(Min2(c1.x, c2.x), Min2(c1.y, c2.y)),
     max |-> P(Max2(c1.x, c2.x), Max2(c1.y, c2.y))]

\* geo::Polygon::new closes the exterior ring
GeoPolygonNew(pts) ==
    IF pts = <<>> THEN <<>>
    ELSE IF pts[1] = pts[Len(pts)] /\ Len(pts) > 1 THEN pts
    ELSE Append(pts, pts[1])

\* sign of the cross product (q - p) x (r - q): 1 counter-clockwise,
\* -1 clockwise, 0 collinear
Orient2d(p, q, r) ==
    LET res == (q.x - p.x) * (r.y - q.y) - (q.y - p.y) * (r.x - q.x)
    IN IF res > 0 THEN 1 ELSE IF res < 0 THEN 0 - 1 ELSE 0

PointInRect(c, a, b) ==
    /\ Min2(a.x, b.x) <= c.x /\ c.x <= Max2(a.x, b.x)
    /\ Min2(a.y, b.y) <= c.y /\ c.y <= Max2(a.y, b.y)

CoordIntersectsLine(c, a, b) == Orient2d(a, b, c) = 0 /\ PointInRect(c, a, b)

LineIntersectsLine(a, b, c, d) ==
    IF a = b THEN CoordIntersectsLine(a, c, d)
    ELSE LET c11 == Orient2d(a, b, c)
             c12 == Orient2d(a, b, d)
         IN IF c11 /= c12
            THEN Orient2d(c, d, a) /= Orient2d(c, d, b)
            ELSE IF c11 = 0
            THEN \/ PointInRect(c, a, b) \/ PointInRect(d, a, b)
                 \/ PointInRect(a, c, d) \/ PointInRect(b, c, d)
            ELSE FALSE

\* edges of a closed ring, as index set
RingLines(ring) == IF Len(ring) < 2 THEN {} ELSE 1..(Len(ring) - 1)

\* coordinate position relative to a ring: on the boundary, or non-zero
\* winding number
CoordInRing(c, ring) ==
    LET OnBoundary == \E i \in RingLines(ring) : CoordIntersectsLine(c, ring[i], ring[i + 1])
        Up == {i \in RingLines(ring) :
                  /\ ring[i].y <= c.y /\ ring[i + 1].y >= c.y
                  /\ Orient2d(ring[i], ring[i + 1], c) = 1
                  /\ ring[i + 1].y /= c.y}
        Down == {i \in RingLines(ring) :
                  /\ ring[i].y > c.y /\ ring[i + 1].y <= c.y
                  /\ Orient2d(ring[i], ring[i + 1], c) = 0 - 1}
    IN OnBoundary \/ Cardinality(Up) /= Cardinality(Down)

RingIntersectsLine(ring, a, b) ==
    \/ \E i \in RingLines(ring) : LineIntersectsLine(ring[i], ring[i + 1], a, b)
    \/ CoordInRing(a, ring)
    \/ CoordInRing(b, ring)

RectToRing(r) ==
    <<P(r.min.x, r.min.y), P(r.min.x, r.max.y), P(r.max.x, r.max.y),
      P(r.max.x, r.min.y), P(r.min.x, r.min.y)>>

\* geo: Rect intersects Rect (closed rectangles, touching counts)
RectIntersects(r, e) ==
    ~ (r.max.x < e.min.x \/ r.max.y < e.min.y \/ r.min.x > e.max.x \/ r.min.y > e.max.y)

\* geo: Polygon intersects Rect, through the rectangle's polygon
PolygonIntersects(ring, e) ==
    LET er == RectToRing(e)
    IN \/ \E i \in RingLines(er) : RingIntersectsLine(ring, er[i], er[i + 1])
       \/ \E i \in RingLines(ring) : RingIntersectsLine(er, ring[i], ring[i + 1])

(***************************************************************************)
(* bbox.rs: UnvalidatedBoundingBox and BoundingBox over i32 points.        *)
(* A call that panics is reported in the result's panic field.             *)
(***************************************************************************)
I32Max == 2147483647
I32Min == 0 - I32Max - 1

\* UnvalidatedBoundingBox::invalid()
UnvalidatedInvalid == [min |-> P(I32Max, I32Max), max |-> P(I32Min, I32Min)]

\* BoundingBox::new without the assertion on the y pair
BoundingBoxNewNoYCheck(unvalidated) ==
    IF unvalidated.min.x = unvalidated.max.x
    THEN [panic |-> "MinMaxEqual", min |-> P(0, 0), max |-> P(0, 0)]
    ELSE [panic |-> "none",
          min |-> P(Min2(unvalidated.min.x, unvalidated.max.x), Min2(unvalidated.min.y, unvalidated.max.y)),
          max |-> P(Max2(unvalidated.min.x, unvalidated.max.x), Max2(unvalidated.min.y, unvalidated.max.y))]

\* BoundingBox::new: assert_ne! on each coordinate pair, then the pair is
\* stored in increasing order
BoundingBoxNew(unvalidated) ==
    IF unvalidated.min.x = unvalidated.max.x \/ unvalidated.min.y = unvalidated.max.y
    THEN [panic |-> "MinMaxEqual", min |-> P(0, 0), max |-> P(0, 0)]
    ELSE [panic |-> "none",
          min |-> P(IF unvalidated.max.x < unvalidated.min.x THEN unvalidated.max.x ELSE unvalidated.min.x,
                    IF unvalidated.max.y < unvalidated.min.y THEN unvalidated.max.y ELSE unvalidated.min.y),
          max |-> P(IF unvalidated.max.x < unvalidated.min.x THEN unvalidated.min.x ELSE unvalidated.max.x,
                    IF unvalidated.max.y < unvalidated.min.y THEN unvalidated.min.y ELSE unvalidated.max.y)]

\* BoundingBox::union leaving self.max as it was
BoundingBoxUnionMinOnly(a, b) ==
    [a EXCEPT !.min = P(Min2(a.min.x, b.min.x), Min2(a.min.y, b.min.y))]

\* BoundingBox::union with min and max exchanged (the intersection)
BoundingBoxUnionAsIntersection(a, b) ==
    [a EXCEPT !.min = P(Max2(a.min.x, b.min.x), Max2(a.min.y, b.min.y)),
              !.max = P(Min2(a.max.x, b.max.x), Min2(a.max.y, b.max.y))]

\* BoundingBox::union
BoundingBoxUnion(a, b) ==
    [a EXCEPT !.min = P(Min2(a.min.x, b.min.x), Min2(a.min.y, b.min.y)),
              !.max = P(Max2(a.max.x, b.max.x), Max2(a.max.y, b.max.y))]

\* BoundingBox::shift, through shapes.rs Point::shift
BoundingBoxShift(a, p) ==
    [a EXCEPT !.min = PointShift(a.min, p), !.max = PointShift(a.max, p)]

(***************************************************************************)
(* shapes.rs: the path offsetter Path::as_poly and its module path_to_poly *)
(***************************************************************************)
CalculateMove(p0, p1) ==
    IF p0.x = p1.x
    THEN IF p0.y = p1.y THEN "Panic" ELSE IF p0.y < p1.y THEN "Up" ELSE "Down"
    ELSE IF p0.y = p1.y
    THEN IF p0.x < p1.x THEN "Right" ELSE "Left"
    ELSE "Panic"

PushChains(c, f, b) ==
    [forward |-> Append(c.forward, f), backward |-> Append(c.backward, b)]

SwapChains(c) == [forward |-> c.backward, backward |-> c.forward]

ShiftPureRight(c, p0, half_width) ==
    PushChains(c, P(p0.x, p0.y - half_width), P(p0.x, p0.y + half_width))

ShiftPureLeft(c, p0, half_width) ==
    PushChains(c, P(p0.x, p0.y + half_width), P(p0.x, p0.y - half_width))

\* shift_pure_up extended by half_width along the segment (a square cap)
ShiftPureUpSquareCap(c, p0, half_width) ==
    PushChains(c, P(p0.x + half_width, p0.y + half_width), P(p0.x - half_width, p0.y + half_width))

ShiftPureUp(c, p0, half_width) ==
    PushChains(c, P(p0.x + half_width, p0.y), P(p0.x - half_width, p0.y))

ShiftPureDown(c, p0, half_width) ==
    PushChains(c, P(p0.x - half_width, p0.y), P(p0.x + half_width, p0.y))

ShiftRightUp(c, p0, half_width) ==
    PushChains(c, P(p0.x + half_width, p0.y - half_width), P(p0.x - half_width, p0.y + half_width))

\* calls shift_right_up with the two chains exchanged
ShiftLeftDown(c, p0, half_width) == SwapChains(ShiftRightUp(SwapChains(c), p0, half_width))

ShiftRightDown(c, p0, half_width) ==
    PushChains(c, P(p0.x - half_width, p0.y - half_width), P(p0.x + half_width, p0.y + half_width))

\* calls shift_right_down with the two chains exchanged
ShiftLeftUp(c, p0, half_width) == SwapChains(ShiftRightDown(SwapChains(c), p0, half_width))

\* the match on start_move / end_move
ShiftPure(move, c, p0, half_width) ==
    CASE move = "Right" -> ShiftPureRight(c, p0, half_width)
      [] move = "Left" -> ShiftPureLeft(c, p0, half_width)
      [] move = "Up" -> ShiftPureUp(c, p0, half_width)
      [] move = "Down" -> ShiftPureDown(c, p0, half_width)

\* the match without its (Right, Up) | (Up, Right) arm, which then falls
\* through to the panic
OpposingOrRightUp(last_move, next_move) ==
    {last_move, next_move} \in {{"Left", "Right"}, {"Up", "Down"}, {"Right", "Up"}}

Opposing(last_move, next_move) ==
    {last_move, next_move} \in {{"Left", "Right"}, {"Up", "Down"}}

\* the match on (last_move, next_move) at an interior vertex, for a pair
\* that is not opposing
ShiftTurn(last_move, next_move, c, p0, half_width) ==
    CASE last_move = next_move -> ShiftPure(next_move, c, p0, half_width)
      [] {last_move, next_move} = {"Right", "Down"} -> ShiftRightDown(c, p0, half_width)
      [] {last_move, next_move} = {"Right", "Up"} -> ShiftRightUp(c, p0, half_width)
      [] {last_move, next_move} = {"Left", "Up"} -> ShiftLeftUp(c, p0, half_width)
      [] {last_move, next_move} = {"Left", "Down"} -> ShiftLeftDown(c, p0, half_width)

NoPoly(kind) == [panic |-> kind, points |-> <<>>]

\* AsPolyFrom returning the backward chain as pushed, not reversed
RECURSIVE AsPolyFromUnreversed(_, _, _, _, _)
AsPolyFromUnreversed(pts, half_width, ix, last_move, c) ==
    IF ix < Len(pts) - 1
    THEN LET p0 == pts[ix + 1]
             p1 == pts[ix + 2]
             next_move == CalculateMove(p0, p1)
         IN IF next_move = "Panic" THEN NoPoly("NotRectilinear")
            ELSE IF Opposing(last_move, next_move) THEN NoPoly("OpposingMoves")
            ELSE AsPolyFromUnreversed(pts, half_width, ix + 1, next_move,
                                      ShiftTurn(last_move, next_move, c, p0, half_width))
    ELSE LET end_move == CalculateMove(pts[Len(pts) - 1], pts[Len(pts)])
         IN IF end_move = "Panic" THEN NoPoly("NotRectilinear")
            ELSE LET e == ShiftPure(end_move, c, pts[Len(pts)], half_width)
                 IN [panic |-> "none", points |-> e.forward \o e.backward]

\* the loop over the interior vertices and what follows it; ix is the
\* 0-based loop index
RECURSIVE AsPolyFrom(_, _, _, _, _)
AsPolyFrom(pts, half_width, ix, last_move, c) ==
    IF ix < Len(pts) - 1
    THEN LET p0 == pts[ix + 1]
             p1 == pts[ix + 2]
             next_move == CalculateMove(p0, p1)
         IN IF next_move = "Panic" THEN NoPoly("NotRectilinear")
            ELSE IF Opposing(last_move, next_move) THEN NoPoly("OpposingMoves")
            ELSE AsPolyFrom(pts, half_width, ix + 1, next_move,
                            ShiftTurn(last_move, next_move, c, p0, half_width))
    ELSE LET end_move == CalculateMove(pts[Len(pts) - 1], pts[Len(pts)])
         IN IF end_move = "Panic" THEN NoPoly("NotRectilinear")
            ELSE LET e == ShiftPure(end_move, c, pts[Len(pts)], half_width)
                 IN [panic |-> "none", points |-> e.forward \o Reverse(e.backward)]

\* Path::as_poly without the assertion on the width (odd widths rounded down)
AsPolyRoundedWidth(path) ==
    LET pts == path.points
        num_points == Len(pts)
        half_width == path.width \div 2
    IN IF num_points = 2
       THEN IF pts[1].x = pts[2].x
            THEN [panic |-> "none",
                  points |-> <<P(pts[1].x + half_width, pts[1].y), P(pts[2].x + half_width, pts[2].y),
                               P(pts[2].x - half_width, pts[2].y), P(pts[1].x - half_width, pts[1].y)>>]
            ELSE [panic |-> "none",
                  points |-> <<P(pts[1].x, pts[1].y - half_width), P(pts[2].x, pts[2].y - half_width),
                               P(pts[2].x, pts[2].y + half_width), P(pts[1].x, pts[1].y + half_width)>>]
       ELSE IF ~ (num_points > 1) THEN NoPoly("TooFewPoints")
       ELSE LET start_move == CalculateMove(pts[1], pts[2])
            IN IF start_move = "Panic" THEN NoPoly("NotRectilinear")
               ELSE AsPolyFrom(pts, half_width, 1, start_move,
                               ShiftPure(start_move, [forward |-> <<>>, backward |-> <<>>], pts[1], half_width))

\* Path::as_poly offsetting by the whole width
AsPolyFullWidth(path) ==
    LET pts == path.points
        num_points == Len(pts)
        half_width == path.width
    IN IF path.width % 2 /= 0 THEN NoPoly("OddWidth")
       ELSE IF num_points = 2
       THEN IF pts[1].x = pts[2].x
            THEN [panic |-> "none",
                  points |-> <<P(pts[1].x + half_width, pts[1].y), P(pts[2].x + half_width, pts[2].y),
                               P(pts[2].x - half_width, pts[2].y), P(pts[1].x - half_width, pts[1].y)>>]
            ELSE [panic |-> "none",
                  points |-> <<P(pts[1].x, pts[1].y - half_width), P(pts[2].x, pts[2].y - half_width),
                               P(pts[2].x, pts[2].y + half_width), P(pts[1].x, pts[1].y + half_width)>>]
       ELSE IF ~ (num_points > 1) THEN NoPoly("TooFewPoints")
       ELSE LET start_move == CalculateMove(pts[1], pts[2])
            IN IF start_move = "Panic" THEN NoPoly("NotRectilinear")
               ELSE AsPolyFrom(pts, half_width, 1, start_move,
                               ShiftPure(start_move, [forward |-> <<>>, backward |-> <<>>], pts[1], half_width))

\* Path::as_poly
AsPoly(path) ==
    LET pts == path.points
        num_points == Len(pts)
        half_width == path.width \div 2
    IN IF path.width % 2 /= 0 THEN NoPoly("OddWidth")
       ELSE IF num_points = 2
       THEN IF pts[1].x = pts[2].x
            THEN [panic |-> "none",
                  points |-> <<P(pts[1].x + half_width, pts[1].y), P(pts[2].x + half_width, pts[2].y),
                               P(pts[2].x - half_width, pts[2].y), P(pts[1].x - half_width, pts[1].y)>>]
            ELSE [panic |-> "none",
                  points |-> <<P(pts[1].x, pts[1].y - half_width), P(pts[2].x, pts[2].y - half_width),
                               P(pts[2].x, pts[2].y + half_width), P(pts[1].x, pts[1].y + half_width)>>]
       ELSE IF ~ (num_points > 1) THEN NoPoly("TooFewPoints")
       ELSE LET start_move == CalculateMove(pts[1], pts[2])
            IN IF start_move = "Panic" THEN NoPoly("NotRectilinear")
               ELSE AsPolyFrom(pts, half_width, 1, start_move,
                               ShiftPure(start_move, [forward |-> <<>>, backward |-> <<>>], pts[1], half_width))

(***************************************************************************)
(* path_to_poly.rs: make_path_into_polygon, the offsetter over raw::Path   *)
(* that returns a geo polygon.  Its calculate_move and shift_* functions   *)
(* are those of shapes.rs over raw::Point.                                 *)
(***************************************************************************)
\* the loop over the interior vertices and what follows it; every arm of
\* the match in the loop passes path.points[0] to the shift function
RECURSIVE MakePolygonFrom(_, _, _, _, _)
MakePolygonFrom(points, half_width, ix, last_move, c) ==
    IF ix < Len(points) - 1
    THEN LET p0 == points[ix + 1]
             p1 == points[ix + 2]
             next_move == CalculateMove(p0, p1)
         IN IF next_move = "Panic" THEN NoPoly("NotRectilinear")
            ELSE IF Opposing(last_move, next_move) THEN NoPoly("OpposingMoves")
            ELSE MakePolygonFrom(points, half_width, ix + 1, next_move,
                                 ShiftTurn(last_move, next_move, c, points[1], half_width))
    ELSE LET end_move == CalculateMove(points[Len(points) - 1], points[Len(points)])
         IN IF end_move = "Panic" THEN NoPoly("NotRectilinear")
            ELSE LET e == ShiftPure(end_move, c, points[Len(points)], half_width)
                 IN [panic |-> "none", points |-> GeoPolygonNew(e.forward \o Reverse(e.backward))]

\* make_path_into_polygon
MakePathIntoPolygon(path) ==
    LET num_points == Len(path.points)
        half_width == path.width \div 2
    IN IF path.width % 2 /= 0 THEN NoPoly("OddWidth")
       ELSE IF ~ (num_points > 1) THEN NoPoly("TooFewPoints")
       ELSE LET start_move == CalculateMove(path.points[1], path.points[2])
            IN IF start_move = "Panic" THEN NoPoly("NotRectilinear")
               ELSE MakePolygonFrom(path.points, half_width, 1, start_move,
                                    ShiftPure(start_move, [forward |-> <<>>, backward |-> <<>>],
                                              path.points[1], half_width))

(***************************************************************************)
(* shapes.rs: impl CalculateBoundingBox for Shape.                         *)
(***************************************************************************)
\* FoldPoints taking min where the max corner is updated
RECURSIVE FoldPointsMaxAsMin(_, _)
FoldPointsMaxAsMin(u, pts) ==
    IF pts = <<>> THEN u
    ELSE FoldPointsMaxAsMin([min |-> P(Min2(Head(pts).x, u.min.x), Min2(Head(pts).y, u.min.y)),
                             max |-> P(Min2(Head(pts).x, u.max.x), Min2(Head(pts).y, u.max.y))],
                            Tail(pts))

\* the min/max fold of a point list into an UnvalidatedBoundingBox
RECURSIVE FoldPoints(_, _)
FoldPoints(u, pts) ==
    IF pts = <<>> THEN u
    ELSE FoldPoints([min |-> P(Min2(Head(pts).x, u.min.x), Min2(Head(pts).y, u.min.y)),
                     max |-> P(Max2(Head(pts).x, u.max.x), Max2(Head(pts).y, u.max.y))],
                    Tail(pts))

ShapeBBox(shape) ==
    IF shape.kind = "Path"
    THEN LET poly == AsPoly(shape)
         IN IF poly.panic /= "none"
            THEN [panic |-> poly.panic, min |-> P(0, 0), max |-> P(0, 0)]
            ELSE BoundingBoxNew(FoldPoints(UnvalidatedInvalid, poly.points))
    ELSE BoundingBoxNew(FoldPoints(UnvalidatedInvalid, shape.points))

(***************************************************************************)
(* shapes.rs: the two aggregate bounding boxes of a sequence of shapes.    *)
(***************************************************************************)
Panicked(kind) == [panic |-> kind, min |-> P(0, 0), max |-> P(0, 0)]

\* the loop of Vec<Shape>::bbox over the shapes after the first
RECURSIVE VecUnionFrom(_, _)
VecUnionFrom(acc, rest) ==
    IF acc.panic /= "none" \/ rest = <<>> THEN acc
    ELSE LET b == ShapeBBox(Head(rest))
         IN IF b.panic /= "none" THEN b
            ELSE VecUnionFrom(BoundingBoxUnion(acc, b), Tail(rest))

\* impl CalculateBoundingBox for Vec<Shape>: shapes.next().unwrap() panics
\* on an empty vector
VecShapeBBox(shapes) ==
    IF shapes = <<>> THEN Panicked("UnwrapNone")
    ELSE VecUnionFrom(ShapeBBox(Head(shapes)), Tail(shapes))

\* the loop of the archived fold: every vertex of every shape goes into one
\* UnvalidatedBoundingBox
RECURSIVE ArchivedFold(_, _)
ArchivedFold(u, rest) ==
    IF rest = <<>> THEN [panic |-> "none", unvalidated |-> u]
    ELSE IF Head(rest).kind = "Path"
    THEN LET pts == AsPoly(Head(rest))
         IN IF pts.panic /= "none" THEN [panic |-> pts.panic, unvalidated |-> u]
            ELSE ArchivedFold(FoldPoints(u, pts.points), Tail(rest))
    ELSE ArchivedFold(FoldPoints(u, Head(rest).points), Tail(rest))

\* impl CalculateBoundingBox for &ArchivedVec<ArchivedShape>
ArchivedVecBBox(shapes) ==
    LET f == ArchivedFold(UnvalidatedInvalid, shapes)
    IN IF f.panic /= "none" THEN Panicked(f.panic)
       ELSE BoundingBoxNew(f.unvalidated)

(***************************************************************************)
(* The primitives a batch is drawn from: squares on the diagonal in both   *)
(* corner orders (degenerate ones included), bands along each axis, right  *)
(* triangles, the empty polygon, and two- and three-point paths.           *)
(***************************************************************************)
Spans == {s \in Coords \X Coords : s[1] < s[2]}

RectUniverse ==
    {Rect(P(a, a), P(b, b)) : a \in Coords, b \in Coords}
    \cup {Rect(P(s[1], 0), P(s[2], 1)) : s \in Spans}
    \cup {Rect(P(0, s[1]), P(1, s[2])) : s \in Spans}

PolygonUniverse ==
    {Polygon(<<P(s[1], s[1]), P(s[2], s[1]), P(s[1], s[2])>>) : s \in Spans}
    \cup {Polygon(<<>>)}

PathUniverse ==
    {Path(<<P(0, 0), P(MaxCoord, 0)>>, w) : w \in 0..MaxWidth}
    \cup {Path(<<P(0, 0), P(0, MaxCoord)>>, w) : w \in 0..MaxWidth}
    \cup {Path(<<P(0 - MaxNeg, 0), P(1, 0), P(1, MaxCoord)>>, w) : w \in 0..MaxWidth}

ShapeUniverse == RectUniverse \cup PolygonUniverse \cup PathUniverse

Batches == UNION {[1..n -> ShapeUniverse] : n \in 0..MaxElems}

\* points, point lists and primitives given to the bounding-box engine and
\* the path offsetter
Pts == {P(a, b) : a \in Coords, b \in Coords}

PointSeqs == UNION {[1..n -> Pts] : n \in 0..MaxPoints}

UnvalidatedBoxes == {[min |-> a, max |-> b] : a \in Pts, b \in Pts}

ValidBoxes == {BoundingBoxNew(u) : u \in {v \in UnvalidatedBoxes : BoundingBoxNew(v).panic = "none"}}

\* the boxes whose union is taken three at a time
UnionOperands == {b \in ValidBoxes : b.min.x >= 0 /\ b.min.y >= 0}

ShiftDeltas == {P(a, b) : a \in {0 - 1, 0, 1}, b \in {0 - 1, 0, 1}}

AllShapes ==
    {Rect(a, b) : a \in Pts, b \in Pts}
    \cup {Polygon(pts) : pts \in PointSeqs}
    \cup {Path(pts, w) : pts \in PointSeqs, w \in 0..MaxWidth}

\* primitives with the coordinates of the specification's examples
ExampleShapes ==
    {Rect(P(0, 0), P(10, 10)), Rect(P(10, 10), P(0, 0)),
     Path(<<P(0, 0), P(0, 10)>>, 4),
     Path(<<P(0, 0), P(10, 0), P(10, 10)>>, 2)}

NoShape == [kind |-> "None", points |-> <<>>, width |-> 0]
NoUnvalidated == [min |-> P(0, 0), max |-> P(0, 0)]
NoBBox == [panic |-> "none", min |-> P(0, 0), max |-> P(0, 0)]
NoPoints == [panic |-> "none", points |-> <<>>]
NoReport == [panic |-> "not run"]
NoGeoShape ==
    [idx |-> 0 - 1,
     shape |-> [kind |-> "None", rect |-> [min |-> P(0, 0), max |-> P(0, 0)], ring |-> <<>>]]

(***************************************************************************)
(* State of load_lib_system / import_cell_shapes, of a BoundingBox value   *)
(* under construction, and of one call of the bounding-box engine.         *)
(***************************************************************************)
VARIABLES
    flattened_elems,   \* the batch, Vec<raw::Element> (1-based here, indices pushed are 0-based)
    texture_dim,       \* tile edge length T
    pc,                \* "load", "import", "done", "panicked"
    bbox,              \* aggregate BoundBox of the batch
    tilemap_shift,     \* raw::Point
    num_x_tiles,
    num_y_tiles,
    tilemap,           \* (ix, iy) -> Tile {extents, shapes}
    shape_count,       \* primitives fully processed by import_cell_shapes
    bb,                \* a BoundingBox value (bbox.rs), or the panic that ended its construction
    bb_unvalidated,    \* the UnvalidatedBoundingBox last given to BoundingBox::new
    bb_history,        \* the calls that produced bb: "new", then "union" / "shift"
    sh_shape,          \* the Shape (shapes.rs) given to the engine
    sh_poly,           \* result of Path::as_poly on it
    sh_bbox,           \* result of Shape::bbox on it
    sh_geo,            \* result of make_path_into_polygon (path_to_poly.rs) on it
    sh_calls,          \* which of these have been called
    report,            \* what stats() computed from the tile map
    geo_shape,         \* the geo_shape import_cell_shapes built last, with the primitive's index
    ag_shapes,         \* a sequence of Shape (shapes.rs) given to the aggregate bbox
    ag_vec,            \* result of <Vec<Shape> as CalculateBoundingBox>::bbox
    ag_archived,       \* result of <&ArchivedVec<ArchivedShape> as CalculateBoundingBox>::bbox
    ag_calls,          \* which of the two have been called
    un_a, un_b, un_c,  \* three BoundingBox values
    un_ab,             \* a.union(&b)
    un_ba,             \* b.union(&a)
    un_ab_c,           \* a.union(&b) followed by union(&c)
    un_a_bc,           \* b.union(&c), then a.union(&b)
    un_calls,          \* which of the four have been computed
    rn_pc,             \* the app with TiledRendererPlugin: "running" or "panicked"
    draw_events,       \* Events<DrawTileEvent>: the keys sent so far
    shapes_cursor,     \* how many of them spawn_shapes_system's EventReader has read
    cameras_cursor,    \* how many of them spawn_cameras_system's EventReader has read
    frame_ran,         \* the systems of the plugin that ran in the current frame
    rendering_done_channel,  \* number of () held by the crossbeam channel
    work_done_callbacks,     \* closures given to on_submitted_work_done that have not returned
    texture_cams,      \* number of TextureCam entities in the world
    commands,          \* queued Commands: TextureCam spawns and despawns
    lyon_visible,      \* is_visible of every LyonShape entity
    tiles_drawn,       \* DrawTileEvents spawn_cameras_system has processed
    rendering_complete_ev    \* RenderingCompleteEvents sent

gridvars == <<flattened_elems, texture_dim, pc, bbox, tilemap_shift,
              num_x_tiles, num_y_tiles, tilemap, shape_count, report, geo_shape>>
bbvars == <<bb, bb_unvalidated, bb_history>>
shvars == <<sh_shape, sh_poly, sh_bbox, sh_geo, sh_calls>>
agvars == <<ag_shapes, ag_vec, ag_archived, ag_calls>>
unvars == <<un_a, un_b, un_c, un_ab, un_ba, un_ab_c, un_a_bc, un_calls>>
rnvars == <<rn_pc, draw_events, shapes_cursor, cameras_cursor, frame_ran,
            rendering_done_channel, work_done_callbacks, texture_cams, commands,
            lyon_visible, tiles_drawn, rendering_complete_ev>>

vars == <<gridvars, bbvars, shvars, agvars, unvars, rnvars>>

GridIdle ==
    /\ flattened_elems = <<>>
    /\ texture_dim = 1
    /\ pc = "idle"
    /\ bbox = [p0 |-> P(0, 0), p1 |-> P(0, 0)]
    /\ tilemap_shift = P(0, 0)
    /\ num_x_tiles = 0
    /\ num_y_tiles = 0
    /\ tilemap = [k \in {} |-> 0]
    /\ shape_count = 0
    /\ report = NoReport
    /\ geo_shape = NoGeoShape

BBIdle ==
    /\ bb = NoBBox
    /\ bb_unvalidated = NoUnvalidated
    /\ bb_history = <<>>

ShIdle ==
    /\ sh_shape = NoShape
    /\ sh_poly = NoPoints
    /\ sh_bbox = NoBBox
    /\ sh_geo = NoPoints
    /\ sh_calls = {}

AgIdle ==
    /\ ag_shapes = <<>>
    /\ ag_vec = NoBBox
    /\ ag_archived = NoBBox
    /\ ag_calls = {}

UnIdle ==
    /\ un_a = NoBBox /\ un_b = NoBBox /\ un_c = NoBBox
    /\ un_ab = NoBBox /\ un_ba = NoBBox /\ un_ab_c = NoBBox /\ un_a_bc = NoBBox
    /\ un_calls = {}

NoCommands == [spawn |-> 0, despawn |-> 0]

RnIdle ==
    /\ rn_pc = "idle"
    /\ draw_events = <<>>
    /\ shapes_cursor = 0
    /\ cameras_cursor = 0
    /\ frame_ran = {}
    /\ rendering_done_channel = 0
    /\ work_done_callbacks = 0
    /\ texture_cams = 0
    /\ commands = NoCommands
    /\ lyon_visible = <<>>
    /\ tiles_drawn = 0
    /\ rendering_complete_ev = 0

\* NumTiles with the quotient truncated instead of rounded up
NumTilesFloor(d, T) == d \div T

\* (dx as f32 / texture_dim as f32).ceil() as u32, exact for the magnitudes
\* of the model
NumTiles(d, T) == (d + T - 1) \div T

\* the running i64 x (or y) of the grid loops after k additions of texture_dim
RECURSIVE TileEdge(_, _, _)
TileEdge(origin, T, k) == IF k = 0 THEN origin ELSE TileEdge(origin, T, k - 1) + T

\* GridShift testing x where the y shift is decided
GridShiftTestsX(b) ==
    P(IF b.p0.x < 0 THEN 0 - b.p0.x ELSE 0,
      IF b.p0.x < 0 THEN 0 - b.p0.y ELSE 0)

GridShift(b) ==
    P(IF b.p0.x < 0 THEN 0 - b.p0.x ELSE 0,
      IF b.p0.y < 0 THEN 0 - b.p0.y ELSE 0)

\* GridKeys with inclusive loop ranges (0..=num_tiles)
GridKeysInclusive(nx, ny) == {<<ix, iy>> : ix \in 0..nx, iy \in 0..ny}

GridKeys(nx, ny) == {<<ix, iy>> : ix \in 0..(nx - 1), iy \in 0..(ny - 1)}

GridTile(b, T, ix, iy) ==
    [extents |-> GeoRectNew(P(TileEdge(b.p0.x, T, ix), TileEdge(b.p0.y, T, iy)),
                            P(TileEdge(b.p0.x, T, ix + 1), TileEdge(b.p0.y, T, iy + 1))),
     shapes |-> <<>>]

Init ==
    /\ flattened_elems \in Batches
    /\ texture_dim \in TextureDims
    /\ pc = "load"
    /\ bbox = BoundBoxEmpty
    /\ tilemap_shift = P(0, 0)
    /\ num_x_tiles = 0
    /\ num_y_tiles = 0
    /\ tilemap = [k \in {} |-> 0]
    /\ shape_count = 0
    /\ report = NoReport
    /\ geo_shape = NoGeoShape
    /\ BBIdle
    /\ ShIdle
    /\ AgIdle
    /\ UnIdle
    /\ RnIdle

\* load_lib_system, from the aggregate bbox fold to the end of the grid loops
BuildGrid ==
    /\ pc = "load"
    /\ LET b == FlattenedBBox(flattened_elems)
       IN /\ bbox' = b
          /\ IF BoundBoxIsEmpty(b)
             THEN \* assert!(!bbox.is_empty())
                  /\ pc' = "panicked"
                  /\ UNCHANGED <<tilemap_shift, num_x_tiles, num_y_tiles, tilemap>>
             ELSE LET dx == b.p1.x - b.p0.x
                      dy == b.p1.y - b.p0.y
                      nx == NumTiles(dx, texture_dim)
                      ny == NumTiles(dy, texture_dim)
                  IN /\ num_x_tiles' = nx
                     /\ num_y_tiles' = ny
                     /\ tilemap_shift' = GridShift(b)
                     /\ tilemap' = [k \in GridKeys(nx, ny) |-> GridTile(b, texture_dim, k[1], k[2])]
                     /\ pc' = "import"
    /\ UNCHANGED <<flattened_elems, texture_dim, shape_count, report, geo_shape,
                   bbvars, shvars, agvars, unvars, rnvars>>

(***************************************************************************)
(* import_cell_shapes: one iteration of its loop over the batch.           *)
(***************************************************************************)
\* p0.x as u32 / texture_dim; the shifted coordinates of a batch member are
\* never negative, so the cast keeps the value
TileIndex(v, T) == v \div T

\* the polygon the Path arm builds (main.rs:604-646)
RECURSIVE PathChains(_, _, _, _)
PathChains(points, half_width, ix, acc) ==
    IF ix >= Len(points) THEN acc
    ELSE LET p0 == points[ix + 1]
             p1 == points[((ix + 1) % Len(points)) + 1]
         IN IF p0.x = p1.x
            THEN PathChains(points, half_width, ix + 1,
                     [forward |-> Append(acc.forward, P(p0.x, p0.y - half_width)),
                      backward |-> Append(acc.backward, P(p0.x, p0.y + half_width))])
            ELSE PathChains(points, half_width, ix + 1,
                     [forward |-> Append(acc.forward, P(p0.x + half_width, p0.y)),
                      backward |-> Append(acc.backward, P(p0.x - half_width, p0.y))])

BinnerPathPoly(p) ==
    LET ch == PathChains(p.points, p.width \div 2, 0, [forward |-> <<>>, backward |-> <<>>])
    IN ch.forward \o Reverse(ch.backward)

\* the geo_shape of main.rs:496-673
GeoShape(inner) ==
    IF inner.kind = "Rect"
    THEN [kind |-> "Rect", rect |-> GeoRectNew(inner.points[1], inner.points[2]), ring |-> <<>>]
    ELSE IF inner.kind = "Polygon"
    THEN [kind |-> "Polygon", rect |-> GeoRectNew(P(0, 0), P(0, 0)), ring |-> GeoPolygonNew(inner.points)]
    ELSE [kind |-> "Polygon", rect |-> GeoRectNew(P(0, 0), P(0, 0)),
          ring |-> GeoPolygonNew(BinnerPathPoly(inner))]

GeoIntersects(g, extents) ==
    IF g.kind = "Rect" THEN RectIntersects(g.rect, extents)
    ELSE PolygonIntersects(g.ring, extents)

\* ColumnKeys looking up (x, max_tile_y) in place of (x, y)
RECURSIVE ColumnKeysStuck(_, _, _)
ColumnKeysStuck(x, y, ymax) ==
    IF y > ymax THEN <<>> ELSE <<<<x, ymax>>>> \o ColumnKeysStuck(x, y + 1, ymax)

\* candidate keys in the order of the loops of main.rs:677-678
RECURSIVE ColumnKeys(_, _, _)
ColumnKeys(x, y, ymax) == IF y > ymax THEN <<>> ELSE <<<<x, y>>>> \o ColumnKeys(x, y + 1, ymax)

RECURSIVE CandidateKeys(_, _, _, _)
CandidateKeys(x, xmax, ymin, ymax) ==
    IF x > xmax THEN <<>>
    ELSE ColumnKeys(x, ymin, ymax) \o CandidateKeys(x + 1, xmax, ymin, ymax)

ShapeCandidateKeys(inner, shift, T) ==
    LET b == RawShapeBBox(inner)
        p0 == PointShift(b.p0, shift)
        p1 == PointShift(b.p1, shift)
    IN CandidateKeys(TileIndex(p0.x, T), TileIndex(p1.x, T),
                     TileIndex(p0.y, T), TileIndex(p1.y, T))

\* PushShape inserting at the front of the list
PushShapeFront(tm, key, idx) ==
    [tm EXCEPT ![key].shapes = <<idx>> \o @]

\* PushShape starting the list anew
PushShapeReplacing(tm, key, idx) ==
    [tm EXCEPT ![key].shapes = <<idx>>]

PushShape(tm, key, idx) ==
    [tm EXCEPT ![key].shapes = Append(@, idx)]

\* BinInto pushing without the overlap test
RECURSIVE BinIntoNoTest(_, _, _, _)
BinIntoNoTest(tm, keys, g, idx) ==
    IF keys = <<>> THEN [tm |-> tm, panicked |-> FALSE]
    ELSE IF Head(keys) \notin DOMAIN tm THEN [tm |-> tm, panicked |-> TRUE]
    ELSE BinIntoNoTest([tm EXCEPT ![Head(keys)].shapes = Append(@, idx)], Tail(keys), g, idx)

\* the body of the loops of main.rs:677-702 over the remaining keys; stops
\* at the first key tilemap.get_mut(..).unwrap() does not find
RECURSIVE BinInto(_, _, _, _)
BinInto(tm, keys, g, idx) ==
    IF keys = <<>> THEN [tm |-> tm, panicked |-> FALSE]
    ELSE IF Head(keys) \notin DOMAIN tm THEN [tm |-> tm, panicked |-> TRUE]
    ELSE IF GeoIntersects(g, tm[Head(keys)].extents)
    THEN BinInto(PushShape(tm, Head(keys), idx), Tail(keys), g, idx)
    ELSE BinInto(tm, Tail(keys), g, idx)

ImportCellShape ==
    /\ pc = "import"
    /\ shape_count < Len(flattened_elems)
    /\ LET idx == shape_count
           inner == flattened_elems[idx + 1]
       IN IF BoundBoxIsEmpty(RawShapeBBox(inner))
          THEN /\ shape_count' = shape_count + 1
               /\ UNCHANGED <<tilemap, pc, geo_shape>>
          ELSE IF inner.kind = "Path" /\ inner.width % 2 /= 0
          THEN \* assert_eq!(p.width % 2, 0)
               /\ pc' = "panicked"
               /\ UNCHANGED <<tilemap, shape_count, geo_shape>>
          ELSE LET r == BinInto(tilemap, ShapeCandidateKeys(inner, tilemap_shift, texture_dim),
                                GeoShape(inner), idx)
               IN /\ geo_shape' = [idx |-> idx, shape |-> GeoShape(inner)]
                  /\ tilemap' = r.tm
                  /\ IF r.panicked
                     THEN pc' = "panicked" /\ UNCHANGED shape_count
                     ELSE pc' = pc /\ shape_count' = shape_count + 1
    /\ UNCHANGED <<flattened_elems, texture_dim, bbox, tilemap_shift, num_x_tiles, num_y_tiles,
                   report, bbvars, shvars, agvars, unvars, rnvars>>

\* the loop of import_cell_shapes has run over the whole batch
FinishImport ==
    /\ pc = "import"
    /\ shape_count = Len(flattened_elems)
    /\ pc' = "done"
    /\ UNCHANGED <<flattened_elems, texture_dim, bbox, tilemap_shift,
                   num_x_tiles, num_y_tiles, tilemap, shape_count, report, geo_shape,
                   bbvars, shvars, agvars, unvars, rnvars>>

(***************************************************************************)
(* stats(&tilemap), called by load_lib_system after import_cell_shapes.    *)
(***************************************************************************)
\* counts: one entry per tile, v.shapes.len()
TileCount(tm, k) == Len(tm[k].shapes)

RECURSIVE SumCounts(_, _)
SumCounts(tm, keys) ==
    IF keys = {} THEN 0
    ELSE LET k == CHOOSE key \in keys : TRUE
         IN TileCount(tm, k) + SumCounts(tm, keys \ {k})

\* counts.iter().min() / counts.iter().max() of a non-empty counts
MinCount(tm) ==
    CHOOSE m \in {TileCount(tm, k) : k \in DOMAIN tm} : \A k \in DOMAIN tm : m <= TileCount(tm, k)

MaxCount(tm) ==
    CHOOSE m \in {TileCount(tm, k) : k \in DOMAIN tm} : \A k \in DOMAIN tm : m >= TileCount(tm, k)

\* the loop of get_grid_shape over the keys; the keys are u32, so x < x_min
\* is never true with x_min = 0 and the order of the keys does not matter
RECURSIVE GridShapeFold(_, _)
GridShapeFold(keys, acc) ==
    IF keys = {} THEN acc
    ELSE LET k == CHOOSE key \in keys : TRUE
             ax == IF k[1] < acc.x_min THEN [acc EXCEPT !.x_min = k[1]]
                   ELSE IF k[1] > acc.x_max THEN [acc EXCEPT !.x_max = k[1]]
                   ELSE acc
             ay == IF k[2] < ax.y_min THEN [ax EXCEPT !.y_min = k[2]]
                   ELSE IF k[2] > ax.y_max THEN [ax EXCEPT !.y_max = k[2]]
                   ELSE ax
         IN GridShapeFold(keys \ {k}, ay)

GetGridShape(keys) ==
    LET r == GridShapeFold(keys, [x_min |-> 0, x_max |-> 0, y_min |-> 0, y_max |-> 0])
    IN <<r.x_max - r.x_min + 1, r.y_max - r.y_min + 1>>

\* what stats() logs and writes; the two f32 quotients are kept as
\* <<numerator, denominator>>
StatsReport(tm) ==
    IF DOMAIN tm = {} THEN [panic |-> "UnwrapNone"]
    ELSE LET grid_size == GetGridShape(DOMAIN tm)
             num_occupied_bins == Cardinality({k \in DOMAIN tm : TileCount(tm, k) /= 0})
             num_rects_incl_duplicates == SumCounts(tm, DOMAIN tm)
         IN IF \E iy \in 0..(grid_size[2] - 1) : \E ix \in 0..(grid_size[1] - 1) :
                   <<ix, iy>> \notin DOMAIN tm
            THEN [panic |-> "UnwrapNone"]
            ELSE [panic |-> "none",
                  num_occupied_bins |-> num_occupied_bins,
                  min |-> MinCount(tm),
                  max |-> MaxCount(tm),
                  num_rects_incl_duplicates |-> num_rects_incl_duplicates,
                  avg_spob |-> num_rects_incl_duplicates \div Cardinality(DOMAIN tm),
                  grid_size |-> grid_size,
                  rows |-> [iy \in 1..grid_size[2] |->
                               [ix \in 1..grid_size[1] |-> TileCount(tm, <<ix - 1, iy - 1>>)]],
                  num_bins |-> grid_size[1] * grid_size[2],
                  grid_occupancy |-> <<num_occupied_bins, grid_size[1] * grid_size[2]>>,
                  avg_shapes_per_occupied_bin |-> <<num_rects_incl_duplicates, num_occupied_bins>>]

Stats ==
    /\ pc = "done"
    /\ report.panic = "not run"
    /\ report' = StatsReport(tilemap)
    /\ pc' = IF report'.panic = "none" THEN pc ELSE "panicked"
    /\ UNCHANGED <<flattened_elems, texture_dim, bbox, tilemap_shift,
                   num_x_tiles, num_y_tiles, tilemap, shape_count, geo_shape,
                   bbvars, shvars, agvars, unvars, rnvars>>

Next == BuildGrid \/ ImportCellShape \/ FinishImport \/ Stats

Spec == Init /\ [][Next]_vars

(***************************************************************************)
(* A BoundingBox value: BoundingBox::new, then union and shift calls.      *)
(***************************************************************************)
InitBBox == GridIdle /\ BBIdle /\ ShIdle /\ AgIdle /\ UnIdle /\ RnIdle

BBValid == bb_history /= <<>> /\ bb.panic = "none"

\* coordinates far from the i32 limits, so that a shift cannot overflow
Shiftable(b) ==
    \A v \in {b.min.x, b.min.y, b.max.x, b.max.y} : 0 - ISizeMax < v /\ v < ISizeMax

BBNew ==
    /\ bb_history = <<>>
    /\ \E u \in UnvalidatedBoxes :
          /\ bb' = BoundingBoxNew(u)
          /\ bb_unvalidated' = u
    /\ bb_history' = <<"new">>
    /\ UNCHANGED <<gridvars, shvars, agvars, unvars, rnvars>>

BBUnion ==
    /\ BBValid
    /\ Len(bb_history) <= MaxOps
    /\ \E other \in ValidBoxes : bb' = BoundingBoxUnion(bb, other)
    /\ bb_history' = Append(bb_history, "union")
    /\ bb_unvalidated' = NoUnvalidated
    /\ UNCHANGED <<gridvars, shvars, agvars, unvars, rnvars>>

BBShift ==
    /\ BBValid
    /\ Len(bb_history) <= MaxOps
    /\ Shiftable(bb)
    /\ \E p \in ShiftDeltas : bb' = BoundingBoxShift(bb, p)
    /\ bb_history' = Append(bb_history, "shift")
    /\ bb_unvalidated' = NoUnvalidated
    /\ UNCHANGED <<gridvars, shvars, agvars, unvars, rnvars>>

NextBBox == BBNew \/ BBUnion \/ BBShift

SpecBBox == InitBBox /\ [][NextBBox]_vars

(***************************************************************************)
(* One primitive given to the engine: Path::as_poly and Shape::bbox.       *)
(***************************************************************************)
InitShape ==
    /\ GridIdle /\ BBIdle /\ AgIdle /\ UnIdle /\ RnIdle
    /\ sh_shape \in AllShapes \cup ExampleShapes
    /\ sh_poly = NoPoints
    /\ sh_bbox = NoBBox
    /\ sh_geo = NoPoints
    /\ sh_calls = {}

CallAsPoly ==
    /\ sh_shape.kind = "Path"
    /\ "as_poly" \notin sh_calls
    /\ sh_poly' = AsPoly(sh_shape)
    /\ sh_calls' = sh_calls \cup {"as_poly"}
    /\ UNCHANGED <<sh_shape, sh_bbox, sh_geo, gridvars, bbvars, agvars, unvars, rnvars>>

CallBBox ==
    /\ "bbox" \notin sh_calls
    /\ sh_bbox' = ShapeBBox(sh_shape)
    /\ sh_calls' = sh_calls \cup {"bbox"}
    /\ UNCHANGED <<sh_shape, sh_poly, sh_geo, gridvars, bbvars, agvars, unvars, rnvars>>

CallMakePathIntoPolygon ==
    /\ sh_shape.kind = "Path"
    /\ "make_path_into_polygon" \notin sh_calls
    /\ sh_geo' = MakePathIntoPolygon(sh_shape)
    /\ sh_calls' = sh_calls \cup {"make_path_into_polygon"}
    /\ UNCHANGED <<sh_shape, sh_poly, sh_bbox, gridvars, bbvars, agvars, unvars, rnvars>>

NextShape == CallAsPoly \/ CallBBox \/ CallMakePathIntoPolygon

SpecShape == InitShape /\ [][NextShape]_vars

(***************************************************************************)
(* A sequence of shapes given to the two aggregate bounding boxes.         *)
(***************************************************************************)
InitAggregate ==
    /\ GridIdle /\ BBIdle /\ ShIdle /\ UnIdle /\ RnIdle
    /\ ag_shapes \in Batches
    /\ ag_vec = NoBBox
    /\ ag_archived = NoBBox
    /\ ag_calls = {}

CallVecBBox ==
    /\ "vec" \notin ag_calls
    /\ ag_vec' = VecShapeBBox(ag_shapes)
    /\ ag_calls' = ag_calls \cup {"vec"}
    /\ UNCHANGED <<ag_shapes, ag_archived, gridvars, bbvars, shvars, unvars, rnvars>>

CallArchivedVecBBox ==
    /\ "archived" \notin ag_calls
    /\ ag_archived' = ArchivedVecBBox(ag_shapes)
    /\ ag_calls' = ag_calls \cup {"archived"}
    /\ UNCHANGED <<ag_shapes, ag_vec, gridvars, bbvars, shvars, unvars, rnvars>>

NextAggregate == CallVecBBox \/ CallArchivedVecBBox

SpecAggregate == InitAggregate /\ [][NextAggregate]_vars

(***************************************************************************)
(* Three BoundingBox values and the unions taken of them.  union(&mut      *)
(* self, &other) stores its result in self; each action works on a copy.  *)
(***************************************************************************)
InitUnion ==
    /\ GridIdle /\ BBIdle /\ ShIdle /\ AgIdle /\ RnIdle
    /\ un_a \in UnionOperands
    /\ un_b \in UnionOperands
    /\ un_c \in UnionOperands
    /\ un_ab = NoBBox /\ un_ba = NoBBox /\ un_ab_c = NoBBox /\ un_a_bc = NoBBox
    /\ un_calls = {}

UnionAB ==
    /\ "ab" \notin un_calls
    /\ un_ab' = BoundingBoxUnion(un_a, un_b)
    /\ un_calls' = un_calls \cup {"ab"}
    /\ UNCHANGED <<un_a, un_b, un_c, un_ba, un_ab_c, un_a_bc, gridvars, bbvars, shvars, agvars, rnvars>>

UnionBA ==
    /\ "ba" \notin un_calls
    /\ un_ba' = BoundingBoxUnion(un_b, un_a)
    /\ un_calls' = un_calls \cup {"ba"}
    /\ UNCHANGED <<un_a, un_b, un_c, un_ab, un_ab_c, un_a_bc, gridvars, bbvars, shvars, agvars, rnvars>>

\* union(&c) on the result of a.union(&b)
UnionABThenC ==
    /\ "ab" \in un_calls
    /\ "ab_c" \notin un_calls
    /\ un_ab_c' = BoundingBoxUnion(un_ab, un_c)
    /\ un_calls' = un_calls \cup {"ab_c"}
    /\ UNCHANGED <<un_a, un_b, un_c, un_ab, un_ba, un_a_bc, gridvars, bbvars, shvars, agvars, rnvars>>

\* b.union(&c), then a.union(&b)
UnionAThenBC ==
    /\ "a_bc" \notin un_calls
    /\ un_a_bc' = BoundingBoxUnion(un_a, BoundingBoxUnion(un_b, un_c))
    /\ un_calls' = un_calls \cup {"a_bc"}
    /\ UNCHANGED <<un_a, un_b, un_c, un_ab, un_ba, un_ab_c, gridvars, bbvars, shvars, agvars, rnvars>>

NextUnion == UnionAB \/ UnionBA \/ UnionABThenC \/ UnionAThenBC

SpecUnion == InitUnion /\ [][NextUnion]_vars

(***************************************************************************)
(* tiled_renderer.rs: the systems of TiledRendererPlugin, the render-done  *)
(* channel and the work-done callbacks.  One frame runs despawn_system,    *)
(* spawn_shapes_system and spawn_cameras_system (the last after            *)
(* spawn_shapes_system) and then applies the queued Commands.              *)
(***************************************************************************)
\* bounded::<()>(1)
ChannelCapacity == 1

\* keys of the TileMap resource, and the keys a DrawTileEvent may carry
RenderTiles == {<<0, 0>>}
DrawKeys == {<<0, 0>>, <<0, 1>>}

Systems == {"despawn_system", "spawn_shapes_system", "spawn_cameras_system"}

InitRender ==
    /\ GridIdle /\ BBIdle /\ ShIdle /\ AgIdle /\ UnIdle
    /\ rn_pc = "running"
    /\ draw_events = <<>>
    /\ shapes_cursor = 0
    /\ cameras_cursor = 0
    /\ frame_ran = {}
    /\ rendering_done_channel = 0
    /\ work_done_callbacks = 0
    /\ texture_cams = 0
    /\ commands = NoCommands
    /\ lyon_visible = <<>>
    /\ tiles_drawn = 0
    /\ rendering_complete_ev = 0

\* a system outside the plugin sends a DrawTileEvent
SendDrawTileEvent ==
    /\ rn_pc = "running"
    /\ Len(draw_events) < MaxDrawEvents
    /\ \E key \in DrawKeys : draw_events' = Append(draw_events, key)
    /\ UNCHANGED <<rn_pc, shapes_cursor, cameras_cursor, frame_ran, rendering_done_channel,
                   work_done_callbacks, texture_cams, commands, lyon_visible, tiles_drawn,
                   rendering_complete_ev, gridvars, bbvars, shvars, agvars, unvars>>

\* despawn_system sending the event whether or not a signal was received
DespawnSystemWithoutSignal ==
    /\ rn_pc = "running"
    /\ "despawn_system" \notin frame_ran
    /\ frame_ran' = frame_ran \cup {"despawn_system"}
    /\ rendering_done_channel' = 0
    /\ commands' = [commands EXCEPT !.despawn = texture_cams]
    /\ lyon_visible' = [i \in DOMAIN lyon_visible |-> FALSE]
    /\ rendering_complete_ev' = rendering_complete_ev + 1
    /\ UNCHANGED <<rn_pc, draw_events, shapes_cursor, cameras_cursor, work_done_callbacks,
                   texture_cams, tiles_drawn, gridvars, bbvars, shvars, agvars, unvars>>

\* despawn_system: one try_recv per run
DespawnSystem ==
    /\ rn_pc = "running"
    /\ "despawn_system" \notin frame_ran
    /\ frame_ran' = frame_ran \cup {"despawn_system"}
    /\ IF rendering_done_channel > 0
       THEN /\ rendering_done_channel' = rendering_done_channel - 1
            /\ commands' = [commands EXCEPT !.despawn = texture_cams]
            /\ lyon_visible' = [i \in DOMAIN lyon_visible |-> FALSE]
            /\ rendering_complete_ev' = rendering_complete_ev + 1
       ELSE UNCHANGED <<rendering_done_channel, commands, lyon_visible, rendering_complete_ev>>
    /\ UNCHANGED <<rn_pc, draw_events, shapes_cursor, cameras_cursor, work_done_callbacks,
                   texture_cams, tiles_drawn, gridvars, bbvars, shvars, agvars, unvars>>

\* spawn_shapes_system: the body of its loop over the unread DrawTileEvents
\* ends in panic!() in its first iteration
SpawnShapesSystem ==
    /\ rn_pc = "running"
    /\ "spawn_shapes_system" \notin frame_ran
    /\ IF shapes_cursor < Len(draw_events)
       THEN /\ rn_pc' = "panicked"
            /\ shapes_cursor' = shapes_cursor + 1
            /\ UNCHANGED frame_ran
       ELSE /\ frame_ran' = frame_ran \cup {"spawn_shapes_system"}
            /\ UNCHANGED <<rn_pc, shapes_cursor>>
    /\ UNCHANGED <<draw_events, cameras_cursor, rendering_done_channel, work_done_callbacks,
                   texture_cams, commands, lyon_visible, tiles_drawn, rendering_complete_ev,
                   gridvars, bbvars, shvars, agvars, unvars>>

\* the loop of spawn_cameras_system over the unread events: each iteration
\* looks the tile up, queues the spawn of two TextureCam cameras and
\* registers one work-done callback
RECURSIVE SpawnCamerasFrom(_, _)
SpawnCamerasFrom(events, acc) ==
    IF events = <<>> THEN acc
    ELSE IF Head(events) \notin RenderTiles
    THEN [acc EXCEPT !.panicked = TRUE, !.read = @ + 1]
    ELSE SpawnCamerasFrom(Tail(events),
                          [acc EXCEPT !.read = @ + 1, !.spawn = @ + 2, !.callbacks = @ + 1])

SpawnCamerasSystem ==
    /\ rn_pc = "running"
    /\ "spawn_shapes_system" \in frame_ran
    /\ "spawn_cameras_system" \notin frame_ran
    /\ LET r == SpawnCamerasFrom(SubSeq(draw_events, cameras_cursor + 1, Len(draw_events)),
                                 [panicked |-> FALSE, read |-> 0, spawn |-> 0, callbacks |-> 0])
       IN /\ cameras_cursor' = cameras_cursor + r.read
          /\ commands' = [commands EXCEPT !.spawn = @ + r.spawn]
          /\ work_done_callbacks' = work_done_callbacks + r.callbacks
          /\ tiles_drawn' = tiles_drawn + r.callbacks
          /\ IF r.panicked
             THEN rn_pc' = "panicked" /\ UNCHANGED frame_ran
             ELSE frame_ran' = frame_ran \cup {"spawn_cameras_system"} /\ UNCHANGED rn_pc
    /\ UNCHANGED <<draw_events, shapes_cursor, rendering_done_channel, texture_cams,
                   lyon_visible, rendering_complete_ev, gridvars, bbvars, shvars, agvars, unvars>>

\* the closure given to on_submitted_work_done: s.send(()) blocks while the
\* channel is full
WorkDoneCallback ==
    /\ rn_pc = "running"
    /\ work_done_callbacks > 0
    /\ rendering_done_channel < ChannelCapacity
    /\ rendering_done_channel' = rendering_done_channel + 1
    /\ work_done_callbacks' = work_done_callbacks - 1
    /\ UNCHANGED <<rn_pc, draw_events, shapes_cursor, cameras_cursor, frame_ran, texture_cams,
                   commands, lyon_visible, tiles_drawn, rendering_complete_ev,
                   gridvars, bbvars, shvars, agvars, unvars>>

\* the end of the stage: the queued Commands are applied
EndFrame ==
    /\ rn_pc = "running"
    /\ frame_ran = Systems
    /\ frame_ran' = {}
    /\ texture_cams' = texture_cams - commands.despawn + commands.spawn
    /\ commands' = NoCommands
    /\ UNCHANGED <<rn_pc, draw_events, shapes_cursor, cameras_cursor, rendering_done_channel,
                   work_done_callbacks, lyon_visible, tiles_drawn, rendering_complete_ev,
                   gridvars, bbvars, shvars, agvars, unvars>>

NextRender ==
    \/ SendDrawTileEvent
    \/ DespawnSystem
    \/ SpawnShapesSystem
    \/ SpawnCamerasSystem
    \/ WorkDoneCallback
    \/ EndFrame

SpecRender == InitRender /\ [][NextRender]_vars

\* every system runs in every frame, the stage ends, and a registered
\* callback whose send can proceed returns
SpecRenderFair ==
    /\ SpecRender
    /\ WF_vars(DespawnSystem)
    /\ WF_vars(SpawnShapesSystem)
    /\ WF_vars(SpawnCamerasSystem)
    /\ WF_vars(WorkDoneCallback)
    /\ WF_vars(EndFrame)

(***************************************************************************)
(* Properties of the grid builder and the binner.                          *)
(***************************************************************************)
GridBuilt == pc \in {"import", "done"}

ShapeIndices(t) == {t.shapes[j] : j \in 1..Len(t.shapes)}

Binned(inner) == ~ BoundBoxIsEmpty(RawShapeBBox(inner))

\* extents of a tile in the shifted coordinate space
ShiftedExtents(t) ==
    [min |-> PointShift(t.extents.min, tilemap_shift),
     max |-> PointShift(t.extents.max, tilemap_shift)]

\* C1: binning completeness. Once import_cell_shapes has run over the
\* batch, every primitive whose geometry intersects a tile's extents
\* (touching counts) has its index in that tile's shape list.
C1_BinningComplete ==
    pc = "done" =>
        \A i \in 1..Len(flattened_elems) : \A k \in DOMAIN tilemap :
            GeoIntersects(GeoShape(flattened_elems[i]), tilemap[k].extents)
                => (i - 1) \in ShapeIndices(tilemap[k])

\* C2: every tile key of every primitive's candidate range is a key of the
\* allocated grid, so the binner's lookup never fails.
C2_CandidateKeysInGrid ==
    GridBuilt =>
        \A i \in 1..Len(flattened_elems) :
            Binned(flattened_elems[i]) =>
                LET keys == ShapeCandidateKeys(flattened_elems[i], tilemap_shift, texture_dim)
                IN \A j \in 1..Len(keys) : keys[j] \in DOMAIN tilemap

\* C3: binning soundness. In every state, every index in a tile's shape
\* list is that of a primitive whose binner-built geometry intersects the
\* tile's extents.
C3_BinningSound ==
    \A k \in DOMAIN tilemap : \A j \in 1..Len(tilemap[k].shapes) :
        /\ tilemap[k].shapes[j] < Len(flattened_elems)
        /\ GeoIntersects(GeoShape(flattened_elems[tilemap[k].shapes[j] + 1]), tilemap[k].extents)

\* a finished pass in which a candidate tile was tested and rejected while
\* another tile received the primitive
C3_Witness ==
    /\ pc = "done"
    /\ \E i \in 1..Len(flattened_elems) :
          LET keys == ShapeCandidateKeys(flattened_elems[i], tilemap_shift, texture_dim)
          IN /\ Binned(flattened_elems[i])
             /\ \E j \in 1..Len(keys) : (i - 1) \in ShapeIndices(tilemap[keys[j]])
             /\ \E j \in 1..Len(keys) : (i - 1) \notin ShapeIndices(tilemap[keys[j]])

\* C4: in the shifted coordinate space the extents of tile (ix, iy) are
\* [ix*T, (ix+1)*T] x [iy*T, (iy+1)*T], wherever the aggregate bbox lies.
C4_ShiftedTileExtents ==
    \A k \in DOMAIN tilemap :
        /\ ShiftedExtents(tilemap[k]).min = P(k[1] * texture_dim, k[2] * texture_dim)
        /\ ShiftedExtents(tilemap[k]).max = P((k[1] + 1) * texture_dim, (k[2] + 1) * texture_dim)

\* C5: after grid construction the key set of the tile map is exactly
\* [0, num_x_tiles) x [0, num_y_tiles), and every tile starts with an empty
\* shape list.
C5_DenseGrid ==
    /\ \A ix \in 0..(MaxNeg + MaxCoord) : \A iy \in 0..(MaxNeg + MaxCoord) :
          (<<ix, iy>> \in DOMAIN tilemap) <=> (ix < num_x_tiles /\ iy < num_y_tiles)
    /\ \A k \in DOMAIN tilemap :
          /\ k[1] \in 0..(MaxNeg + MaxCoord) /\ k[2] \in 0..(MaxNeg + MaxCoord)
          /\ (pc = "import" /\ shape_count = 0) => tilemap[k].shapes = <<>>

C5_Witness ==
    /\ pc = "import" /\ shape_count = 0
    /\ num_x_tiles >= 2 /\ num_y_tiles >= 2

\* integer points of the (closed) aggregate bbox
BBoxPoints == {P(x, y) : x \in bbox.p0.x..bbox.p1.x, y \in bbox.p0.y..bbox.p1.y}

\* tiles whose extents, read as half-open [min, max), hold the point
TilesHolding(p) ==
    {k \in DOMAIN tilemap :
        /\ tilemap[k].extents.min.x <= p.x /\ p.x < tilemap[k].extents.max.x
        /\ tilemap[k].extents.min.y <= p.y /\ p.y < tilemap[k].extents.max.y}

GridShape ==
    /\ \A k \in DOMAIN tilemap :
          /\ tilemap[k].extents.max.x - tilemap[k].extents.min.x = texture_dim
          /\ tilemap[k].extents.max.y - tilemap[k].extents.min.y = texture_dim
          /\ <<k[1] + 1, k[2]>> \in DOMAIN tilemap =>
                 tilemap[<<k[1] + 1, k[2]>>].extents.min.x = tilemap[k].extents.max.x
          /\ <<k[1], k[2] + 1>> \in DOMAIN tilemap =>
                 tilemap[<<k[1], k[2] + 1>>].extents.min.y = tilemap[k].extents.max.y
    /\ num_x_tiles * texture_dim >= bbox.p1.x - bbox.p0.x
    /\ num_y_tiles * texture_dim >= bbox.p1.y - bbox.p0.y

OnExactMaxEdge(p) ==
    \/ p.x = bbox.p1.x /\ (bbox.p1.x - bbox.p0.x) % texture_dim = 0
    \/ p.y = bbox.p1.y /\ (bbox.p1.y - bbox.p0.y) % texture_dim = 0

C7_AtMostOncePerTile ==
    \A k \in DOMAIN tilemap :
        Cardinality(ShapeIndices(tilemap[k])) = Len(tilemap[k].shapes)

\* a primitive pushed into several tiles, one of which holds two primitives
C7_Witness ==
    \E k1 \in DOMAIN tilemap : \E k2 \in DOMAIN tilemap :
        /\ k1 /= k2
        /\ Len(tilemap[k1].shapes) >= 2
        /\ \E i \in ShapeIndices(tilemap[k1]) : i \in ShapeIndices(tilemap[k2])

\* C8: after any prefix of the binning pass every tile's shape list is
\* strictly increasing in primitive index.
C8_ShapesIncreasing ==
    \A k \in DOMAIN tilemap : \A j \in 1..Len(tilemap[k].shapes) :
        j > 1 => tilemap[k].shapes[j - 1] < tilemap[k].shapes[j]

C8_Witness ==
    /\ pc = "done"
    /\ \E k \in DOMAIN tilemap : Len(tilemap[k].shapes) >= 2

(***************************************************************************)
(* Properties of the bounding-box engine.                                  *)
(***************************************************************************)
\* C9: every BoundingBox obtained through BoundingBox::new and any sequence
\* of union and shift calls has min.x < max.x and min.y < max.y; new stores
\* each coordinate pair in increasing order and rejects a pair whose two
\* values are equal.
C9_BoundingBoxStrict ==
    /\ BBValid => bb.min.x < bb.max.x /\ bb.min.y < bb.max.y
    /\ bb_history = <<"new">> =>
          /\ (bb.panic /= "none") <=>
                 (bb_unvalidated.min.x = bb_unvalidated.max.x
                  \/ bb_unvalidated.min.y = bb_unvalidated.max.y)
          /\ bb.panic = "none" =>
                 /\ {bb.min.x, bb.max.x} = {bb_unvalidated.min.x, bb_unvalidated.max.x}
                 /\ {bb.min.y, bb.max.y} = {bb_unvalidated.min.y, bb_unvalidated.max.y}

C9_Witness ==
    /\ BBValid
    /\ bb_history = <<"new", "union", "shift">>

\* the vertices share one x or one y
SharesAxis(pts) ==
    /\ pts /= <<>>
    /\ \/ \A i \in 1..Len(pts) : pts[i].x = pts[1].x
       \/ \A i \in 1..Len(pts) : pts[i].y = pts[1].y

\* C10: bbox() of a primitive that collapses to a point or an axis-aligned
\* line (a Rect whose corners share a coordinate, a Polygon or a Path
\* outline whose vertices share one x or one y) panics in BoundingBox::new
\* and returns no bounding box.
C10_CollapsedRejected ==
    "bbox" \in sh_calls =>
        /\ sh_shape.kind \in {"Rect", "Polygon"} /\ SharesAxis(sh_shape.points)
              => sh_bbox.panic = "MinMaxEqual"
        /\ sh_shape.kind = "Path" /\ "as_poly" \in sh_calls
              /\ sh_poly.panic = "none" /\ SharesAxis(sh_poly.points)
              => sh_bbox.panic = "MinMaxEqual"

C10_Witness ==
    /\ sh_calls = {"as_poly", "bbox"}
    /\ sh_poly.panic = "none"
    /\ SharesAxis(sh_poly.points)
    /\ Len(sh_shape.points) = 3
    /\ sh_bbox.panic = "MinMaxEqual"

\* C11: the aggregate bounding box of an empty sequence of primitives
\* fails and returns no bounding box, in the fold over Vec<Shape> and in the
\* fold over the archived shape vector.
C11_EmptyBatchFails ==
    ag_shapes = <<>> =>
        /\ "vec" \in ag_calls => ag_vec.panic /= "none"
        /\ "archived" \in ag_calls => ag_archived.panic /= "none"

\* C12: for all valid bounding boxes A, B, C, union(A,B) = union(B,A) and
\* union(union(A,B),C) = union(A,union(B,C)), and union(A,B) has the
\* component-wise min of the min corners and max of the max corners.
C12_UnionCommutesAssociates ==
    /\ {"ab", "ba"} \subseteq un_calls => un_ab = un_ba
    /\ {"ab_c", "a_bc"} \subseteq un_calls => un_ab_c = un_a_bc
    /\ "ab" \in un_calls =>
          /\ un_ab.min = P(Min2(un_a.min.x, un_b.min.x), Min2(un_a.min.y, un_b.min.y))
          /\ un_ab.max = P(Max2(un_a.max.x, un_b.max.x), Max2(un_a.max.y, un_b.max.y))

\* all four unions taken of three different boxes, none of which holds
\* another
C12_Witness ==
    /\ un_calls = {"ab", "ba", "ab_c", "a_bc"}
    /\ un_ab /= un_a /\ un_ab /= un_b
    /\ un_ab_c /= un_ab /\ un_ab_c /= un_c

\* C13: for every Rect whose corners p0 and p1 differ in both axes, in
\* whatever order the corners are given, bbox() returns min = the
\* component-wise minimum and max = the component-wise maximum of the two
\* corners; corners (0,0) and (10,10) give min (0,0), max (10,10).
C13_RectBBox ==
    "bbox" \in sh_calls /\ sh_shape.kind = "Rect" =>
        LET p0 == sh_shape.points[1]
            p1 == sh_shape.points[2]
        IN /\ p0.x /= p1.x /\ p0.y /= p1.y =>
                 /\ sh_bbox.panic = "none"
                 /\ sh_bbox.min = P(Min2(p0.x, p1.x), Min2(p0.y, p1.y))
                 /\ sh_bbox.max = P(Max2(p0.x, p1.x), Max2(p0.y, p1.y))
           /\ {p0, p1} = {P(0, 0), P(10, 10)} =>
                 sh_bbox = [panic |-> "none", min |-> P(0, 0), max |-> P(10, 10)]

\* bbox() of a Rect given by its upper-left and lower-right corners
C13_Witness ==
    /\ "bbox" \in sh_calls
    /\ sh_shape.kind = "Rect"
    /\ sh_shape.points[1].x < sh_shape.points[2].x
    /\ sh_shape.points[1].y > sh_shape.points[2].y
    /\ sh_bbox.panic = "none"

(***************************************************************************)
(* Properties of the path offsetter.                                       *)
(***************************************************************************)
EvenWidthPath(s) == s.kind = "Path" /\ s.width % 2 = 0

\* the two points differ in exactly one axis
RectilinearPair(p, q) == (p.x = q.x) /= (p.y = q.y)

\* corners of the rectangle around the segment p-q, half_width to each side
\* of it and not extended along it
OffsetCorners(p, q, half_width) ==
    IF p.x = q.x
    THEN {P(p.x - half_width, p.y), P(p.x + half_width, p.y),
          P(q.x - half_width, q.y), P(q.x + half_width, q.y)}
    ELSE {P(p.x, p.y - half_width), P(p.x, p.y + half_width),
          P(q.x, q.y - half_width), P(q.x, q.y + half_width)}

Rotate(s, k) == [i \in 1..Len(s) |-> s[((i + k - 1) % Len(s)) + 1]]

\* equal up to rotation and direction of traversal
SameRing(s, t) ==
    /\ Len(s) = Len(t)
    /\ \E k \in 0..(Len(s) - 1) : Rotate(s, k) = t \/ Rotate(Reverse(s), k) = t

\* consecutive vertices (cyclically) lie on one axis-parallel line
PerimeterOrder(s) ==
    \A i \in 1..Len(s) :
        LET a == s[i]
            b == s[(i % Len(s)) + 1]
        IN a.x = b.x \/ a.y = b.y

\* C14: for every two-point rectilinear path with even width w, in any of
\* the four directions, as_poly returns exactly four vertices, the corners
\* of the rectangle obtained by offsetting the segment by w/2 perpendicular
\* to it on both sides, not extended along the segment; the vertical path
\* (0,0)-(0,10) with width 4 yields, up to rotation and order,
\* (-2,0),(2,0),(2,10),(-2,10).
C14_TwoPointRectangle ==
    "as_poly" \in sh_calls /\ EvenWidthPath(sh_shape) /\ Len(sh_shape.points) = 2 =>
        LET p == sh_shape.points[1]
            q == sh_shape.points[2]
        IN /\ RectilinearPair(p, q) =>
                 /\ sh_poly.panic = "none"
                 /\ Len(sh_poly.points) = 4
                 /\ {sh_poly.points[i] : i \in 1..4} = OffsetCorners(p, q, sh_shape.width \div 2)
                 /\ PerimeterOrder(sh_poly.points)
           /\ sh_shape = Path(<<P(0, 0), P(0, 10)>>, 4) =>
                 SameRing(sh_poly.points, <<P(0 - 2, 0), P(2, 0), P(2, 10), P(0 - 2, 10)>>)

C14_Witness ==
    /\ "as_poly" \in sh_calls
    /\ sh_shape = Path(<<P(0, 0), P(0, 10)>>, 4)
    /\ sh_poly.panic = "none"

LPath == Path(<<P(0, 0), P(10, 0), P(10, 10)>>, 2)

\* C15 as stated: the 3-point L-shaped path (0,0) -> (10,0) -> (10,10) with
\* width 2 produces a polygon whose bounding box is exactly (-1,-1) to
\* (11,11).
C15_LPathBBoxOriginal ==
    "bbox" \in sh_calls /\ sh_shape = LPath =>
        sh_bbox = [panic |-> "none", min |-> P(0 - 1, 0 - 1), max |-> P(11, 11)]

\* C15 amended: the 3-point L-shaped path (0,0) -> (10,0) -> (10,10) with
\* width 2 produces the outline (0,-1),(11,-1),(11,10),(9,10),(9,1),(0,1),
\* whose bounding box is exactly (0,-1) to (11,10): the outer corner extends
\* by half the width in both directions at the turn, the two ends are not
\* extended along their segments.
C15_LPathBBox ==
    /\ "bbox" \in sh_calls /\ sh_shape = LPath =>
          sh_bbox = [panic |-> "none", min |-> P(0, 0 - 1), max |-> P(11, 10)]
    /\ "as_poly" \in sh_calls /\ sh_shape = LPath =>
          sh_poly = [panic |-> "none",
                     points |-> <<P(0, 0 - 1), P(11, 0 - 1), P(11, 10), P(9, 10), P(9, 1), P(0, 1)>>]

C15_Witness ==
    /\ sh_shape = LPath
    /\ {"as_poly", "bbox"} \subseteq sh_calls
    /\ sh_bbox.panic = "none"

\* some consecutive point pair is diagonal or identical
HasBadPair(pts) ==
    \E i \in 1..(Len(pts) - 1) : ~ RectilinearPair(pts[i], pts[i + 1])

\* C16: for every path of length >= 2 (exactly two points included) that
\* contains a consecutive point pair that is diagonal or identical, the
\* path offsetter (Path::as_poly, make_path_into_polygon) fails and returns
\* no polygon.
C16_NonRectilinearRejected ==
    sh_shape.kind = "Path" /\ Len(sh_shape.points) >= 2 /\ HasBadPair(sh_shape.points) =>
        /\ "as_poly" \in sh_calls =>
              sh_poly.panic /= "none" /\ sh_poly.points = <<>>
        /\ "make_path_into_polygon" \in sh_calls =>
              sh_geo.panic /= "none" /\ sh_geo.points = <<>>

\* C17: a path whose stroke width is odd, or that has fewer than 2 points
\* (0 or 1), is rejected by the path offsetter (Path::as_poly,
\* make_path_into_polygon): it fails before producing any polygon vertex.
C17_OddWidthOrShortRejected ==
    sh_shape.kind = "Path" /\ (sh_shape.width % 2 /= 0 \/ Len(sh_shape.points) < 2) =>
        LET kind == IF sh_shape.width % 2 /= 0 THEN "OddWidth" ELSE "TooFewPoints"
        IN /\ "as_poly" \in sh_calls => sh_poly = [panic |-> kind, points |-> <<>>]
           /\ "make_path_into_polygon" \in sh_calls => sh_geo = [panic |-> kind, points |-> <<>>]

\* both offsetters called on a two-point rectilinear path of odd width
C17_Witness ==
    /\ sh_shape.kind = "Path"
    /\ sh_shape.width % 2 /= 0
    /\ Len(sh_shape.points) = 2
    /\ RectilinearPair(sh_shape.points[1], sh_shape.points[2])
    /\ {"as_poly", "make_path_into_polygon"} \subseteq sh_calls
    /\ sh_poly.panic = "OddWidth"

\* direction of a rectilinear segment
Direction(p, q) ==
    IF p.x < q.x THEN "Right" ELSE IF p.x > q.x THEN "Left"
    ELSE IF p.y < q.y THEN "Up" ELSE "Down"

\* interior vertex i (1-based) has two rectilinear segments of opposite
\* directions
ReversesAt(pts, i) ==
    /\ RectilinearPair(pts[i - 1], pts[i])
    /\ RectilinearPair(pts[i], pts[i + 1])
    /\ <<Direction(pts[i - 1], pts[i]), Direction(pts[i], pts[i + 1])>>
           \in {<<"Left", "Right">>, <<"Right", "Left">>, <<"Up", "Down">>, <<"Down", "Up">>}

HasReversal(pts) == \E i \in 2..(Len(pts) - 1) : ReversesAt(pts, i)

\* C18: for every path with at least 3 points that has an interior vertex
\* whose incoming and outgoing directions are opposite, the path offsetter
\* (Path::as_poly, make_path_into_polygon) fails and returns no polygon, with
\* the opposing-moves panic when every segment is rectilinear; every other
\* pair of directions at an interior vertex is accepted.
C18_ReversalRejected ==
    sh_shape.kind = "Path" /\ Len(sh_shape.points) >= 3 =>
        LET pts == sh_shape.points
            rectilinear == EvenWidthPath(sh_shape) /\ ~ HasBadPair(pts)
        IN /\ "as_poly" \in sh_calls =>
                 /\ HasReversal(pts) => sh_poly.panic /= "none" /\ sh_poly.points = <<>>
                 /\ rectilinear /\ HasReversal(pts) => sh_poly.panic = "OpposingMoves"
                 /\ rectilinear /\ ~ HasReversal(pts) =>
                        sh_poly.panic = "none" /\ Len(sh_poly.points) = 2 * Len(pts)
           /\ "make_path_into_polygon" \in sh_calls =>
                 /\ HasReversal(pts) => sh_geo.panic /= "none" /\ sh_geo.points = <<>>
                 /\ rectilinear /\ HasReversal(pts) => sh_geo.panic = "OpposingMoves"
                 /\ rectilinear /\ ~ HasReversal(pts) => sh_geo.panic = "none"

\* both offsetters called on an even-width path that goes up and comes back
\* down
C18_Witness ==
    /\ sh_shape.kind = "Path"
    /\ Len(sh_shape.points) = 3
    /\ EvenWidthPath(sh_shape)
    /\ ReversesAt(sh_shape.points, 2)
    /\ Direction(sh_shape.points[1], sh_shape.points[2]) = "Up"
    /\ {"as_poly", "make_path_into_polygon"} \subseteq sh_calls
    /\ sh_poly.panic = "OpposingMoves"

(***************************************************************************)
(* Properties of the grid shift and of the occupancy report.               *)
(***************************************************************************)
\* C19: the grid shift is computed per axis independently: shift.x is
\* -min.x when the aggregate bbox's min.x is negative and 0 otherwise,
\* shift.y likewise; the shifted minimum corner of the aggregate bbox is
\* non-negative on both axes.
C19_GridShiftPerAxis ==
    GridBuilt =>
        /\ tilemap_shift.x = IF bbox.p0.x < 0 THEN 0 - bbox.p0.x ELSE 0
        /\ tilemap_shift.y = IF bbox.p0.y < 0 THEN 0 - bbox.p0.y ELSE 0
        /\ PointShift(bbox.p0, tilemap_shift).x >= 0
        /\ PointShift(bbox.p0, tilemap_shift).y >= 0

\* a grid built for a batch whose minimum is negative on one axis only
C19_Witness ==
    /\ GridBuilt
    /\ bbox.p0.x >= 0 /\ bbox.p0.y < 0
    /\ tilemap_shift.x = 0 /\ tilemap_shift.y > 0

OccupiedTiles == {k \in DOMAIN tilemap : tilemap[k].shapes /= <<>>}

\* C20: the occupancy report's minimum, maximum and average shapes-per-tile
\* are taken over the occupied tiles only, the occupied-tile count is the
\* number of tiles with a non-empty shape list, and the occupancy ratio is
\* occupied / (num_x_tiles * num_y_tiles).
C20_OccupancyReport ==
    report.panic = "none" =>
        /\ report.num_occupied_bins = Cardinality(OccupiedTiles)
        /\ report.grid_occupancy = <<Cardinality(OccupiedTiles), num_x_tiles * num_y_tiles>>
        /\ OccupiedTiles /= {} =>
              /\ \E k \in OccupiedTiles : report.min = Len(tilemap[k].shapes)
              /\ \A k \in OccupiedTiles : report.min <= Len(tilemap[k].shapes)
              /\ \E k \in OccupiedTiles : report.max = Len(tilemap[k].shapes)
              /\ \A k \in OccupiedTiles : report.max >= Len(tilemap[k].shapes)
              /\ report.avg_spob = SumCounts(tilemap, OccupiedTiles) \div Cardinality(OccupiedTiles)
              /\ report.avg_shapes_per_occupied_bin =
                     <<SumCounts(tilemap, OccupiedTiles), Cardinality(OccupiedTiles)>>

(***************************************************************************)
(* Properties of the outline of a path of three or more points.            *)
(***************************************************************************)
\* even width, every segment rectilinear, no reversal
ValidPath(s) ==
    /\ EvenWidthPath(s)
    /\ Len(s.points) >= 2
    /\ ~ HasBadPair(s.points)
    /\ ~ HasReversal(s.points)

\* unit vector to the right-hand side of a direction of travel
RightHand(dir) ==
    CASE dir = "Right" -> P(0, 0 - 1)
      [] dir = "Left" -> P(0, 1)
      [] dir = "Up" -> P(1, 0)
      [] dir = "Down" -> P(0 - 1, 0)

\* directions of the segments that meet at centerline point i (1-based)
DirectionsAt(pts, i) ==
    (IF i > 1 THEN {Direction(pts[i - 1], pts[i])} ELSE {})
    \cup (IF i < Len(pts) THEN {Direction(pts[i], pts[i + 1])} ELSE {})

\* sum of the right-hand unit vectors of the directions at point i
SideAt(pts, i) ==
    LET dirs == DirectionsAt(pts, i)
    IN P((IF "Up" \in dirs THEN 1 ELSE 0) - (IF "Down" \in dirs THEN 1 ELSE 0),
         (IF "Left" \in dirs THEN 1 ELSE 0) - (IF "Right" \in dirs THEN 1 ELSE 0))

\* offsets of centerline point i: half_width to the right-hand side of each
\* segment at the point (forward chain), and to the left-hand side
\* (backward chain)
ForwardOffset(pts, i, half_width) ==
    P(pts[i].x + half_width * SideAt(pts, i).x, pts[i].y + half_width * SideAt(pts, i).y)

BackwardOffset(pts, i, half_width) ==
    P(pts[i].x - half_width * SideAt(pts, i).x, pts[i].y - half_width * SideAt(pts, i).y)

\* C21: for every valid rectilinear path with n >= 3 points, the outline
\* returned by Path::as_poly has exactly 2n vertices: vertices 0..n-1 are the
\* forward-chain offsets of centerline points 0..n-1 in path order, and
\* vertices n..2n-1 are the backward-chain offsets of centerline points
\* n-1..0.
C21_OutlineOrder ==
    "as_poly" \in sh_calls /\ ValidPath(sh_shape) /\ Len(sh_shape.points) >= 3 =>
        LET pts == sh_shape.points
            n == Len(pts)
            half_width == sh_shape.width \div 2
        IN /\ sh_poly.panic = "none"
           /\ Len(sh_poly.points) = 2 * n
           /\ \A i \in 1..n :
                 /\ sh_poly.points[i] = ForwardOffset(pts, i, half_width)
                 /\ sh_poly.points[n + i] = BackwardOffset(pts, n + 1 - i, half_width)

\* as_poly called on a path of positive width that turns
C21_Witness ==
    /\ "as_poly" \in sh_calls
    /\ ValidPath(sh_shape)
    /\ Len(sh_shape.points) = 3
    /\ sh_shape.width > 0
    /\ Direction(sh_shape.points[1], sh_shape.points[2]) = "Left"
    /\ Direction(sh_shape.points[2], sh_shape.points[3]) = "Down"
    /\ sh_poly.panic = "none"

(***************************************************************************)
(* Properties of the binner's path geometry and of its steps.              *)
(***************************************************************************)
SeqSet(q) == {q[i] : i \in 1..Len(q)}

\* C22: for every Path primitive, the polygon that import_cell_shapes tests
\* against the tile extents is the path offsetter's outline: it has the same
\* vertex set as make_path_into_polygon and Path::as_poly return for that
\* path.
C22_BinnerUsesOffsetterOutline ==
    geo_shape.idx >= 0 =>
        LET inner == flattened_elems[geo_shape.idx + 1]
        IN inner.kind = "Path" /\ ValidPath(inner) =>
               /\ SeqSet(geo_shape.shape.ring) = SeqSet(MakePathIntoPolygon(inner).points)
               /\ SeqSet(geo_shape.shape.ring) = SeqSet(AsPoly(inner).points)

\* the primitive's bounding box in the shifted coordinate space
ShiftedBBox(inner) ==
    [p0 |-> PointShift(RawShapeBBox(inner).p0, tilemap_shift),
     p1 |-> PointShift(RawShapeBBox(inner).p1, tilemap_shift)]

\* C23: seam over-inclusion. After the pass, a primitive whose shifted
\* bounding box has an edge exactly on the boundary k * T between the
\* existing adjacent tile columns (rows) k - 1 and k has its index in a tile
\* of column (row) k - 1 and in the adjacent tile of column (row) k.
C23_SeamOverInclusion ==
    pc = "done" =>
        \A i \in 1..Len(flattened_elems) :
            Binned(flattened_elems[i]) =>
                LET b == ShiftedBBox(flattened_elems[i])
                IN /\ \A k \in 1..(num_x_tiles - 1) :
                          (b.p0.x = k * texture_dim \/ b.p1.x = k * texture_dim) =>
                              \E iy \in 0..(num_y_tiles - 1) :
                                  /\ (i - 1) \in ShapeIndices(tilemap[<<k - 1, iy>>])
                                  /\ (i - 1) \in ShapeIndices(tilemap[<<k, iy>>])
                   /\ \A k \in 1..(num_y_tiles - 1) :
                          (b.p0.y = k * texture_dim \/ b.p1.y = k * texture_dim) =>
                              \E ix \in 0..(num_x_tiles - 1) :
                                  /\ (i - 1) \in ShapeIndices(tilemap[<<ix, k - 1>>])
                                  /\ (i - 1) \in ShapeIndices(tilemap[<<ix, k>>])

IsPrefix(q, r) == Len(q) <= Len(r) /\ SubSeq(r, 1, Len(q)) = q

\* C24: every step of the binning pass leaves the primitive sequence, the
\* key set of the tile map and every tile's extents unchanged, and each
\* tile's shape list before the step is a prefix of its list after the step.
C24_BinningFrame ==
    [][pc = "import" =>
          /\ flattened_elems' = flattened_elems
          /\ DOMAIN tilemap' = DOMAIN tilemap
          /\ \A k \in DOMAIN tilemap :
                 /\ tilemap'[k].extents = tilemap[k].extents
                 /\ IsPrefix(tilemap[k].shapes, tilemap'[k].shapes)]_vars

\* mid-pass, the next primitive overlaps a tile that already holds one
C24_Witness ==
    /\ pc = "import"
    /\ shape_count < Len(flattened_elems)
    /\ Binned(flattened_elems[shape_count + 1])
    /\ \E k \in DOMAIN tilemap :
           /\ tilemap[k].shapes /= <<>>
           /\ GeoIntersects(GeoShape(flattened_elems[shape_count + 1]), tilemap[k].extents)

(***************************************************************************)
(* Properties relating the two path offsetters.                            *)
(***************************************************************************)
BothOffsettersCalled == {"as_poly", "make_path_into_polygon"} \subseteq sh_calls

\* C25: for every valid rectilinear path with even width,
\* make_path_into_polygon and Path::as_poly both return; with at least 3
\* points the ring of the former is the closed vertex sequence of the
\* latter, and with 2 points the two have the same vertex set.
C25_OffsettersAgree ==
    BothOffsettersCalled /\ ValidPath(sh_shape) =>
        /\ sh_poly.panic = "none"
        /\ sh_geo.panic = "none"
        /\ Len(sh_shape.points) >= 3 => sh_geo.points = GeoPolygonNew(sh_poly.points)
        /\ Len(sh_shape.points) = 2 => SeqSet(sh_geo.points) = SeqSet(sh_poly.points)

Abs(v) == IF v < 0 THEN 0 - v ELSE v

OneAxisStep(a, b) == a.x = b.x \/ a.y = b.y

TurnAt(pts, i) ==
    /\ 1 < i /\ i < Len(pts)
    /\ Direction(pts[i - 1], pts[i]) /= Direction(pts[i], pts[i + 1])

\* outline lists the forward offsets of pts in order and then the backward
\* offsets in reverse order (a closing vertex may follow)
OffsetsWellFormed(outline, pts, h) ==
    LET n == Len(pts)
    IN /\ Len(outline) >= 2 * n
       /\ \A i \in 1..n :
              LET f == outline[i]
                  b == outline[2 * n + 1 - i]
                  dx == Abs(f.x - pts[i].x)
                  dy == Abs(f.y - pts[i].y)
              IN /\ f.x + b.x = 2 * pts[i].x
                 /\ f.y + b.y = 2 * pts[i].y
                 /\ IF TurnAt(pts, i)
                    THEN dx = h /\ dy = h
                    ELSE (dx = h /\ dy = 0) \/ (dx = 0 /\ dy = h)
       /\ \A i \in 1..(n - 1) :
              /\ OneAxisStep(outline[i], outline[i + 1])
              /\ OneAxisStep(outline[n + i], outline[n + i + 1])

AsPolyOffsetsWellFormed ==
    "as_poly" \in sh_calls /\ ValidPath(sh_shape) /\ Len(sh_shape.points) >= 3 =>
        /\ sh_poly.panic = "none"
        /\ OffsetsWellFormed(sh_poly.points, sh_shape.points, sh_shape.width \div 2)

\* C26: for every valid rectilinear path with at least 3 points and
\* half-width h, in the outline of Path::as_poly and in that of
\* make_path_into_polygon the forward and backward offsets of centerline
\* point i add up to twice that point, each is h away from the point on one
\* axis at the caps and straight continuations and on both axes at a turn,
\* and consecutive vertices of a chain differ in at most one axis.
C26_OffsetSymmetry ==
    BothOffsettersCalled /\ ValidPath(sh_shape) /\ Len(sh_shape.points) >= 3 =>
        /\ AsPolyOffsetsWellFormed
        /\ sh_geo.panic = "none"
        /\ OffsetsWellFormed(sh_geo.points, sh_shape.points, sh_shape.width \div 2)

(***************************************************************************)
(* Properties of the aggregate and of the empty bounding box.              *)
(***************************************************************************)
\* C27: on every sequence of primitives the fold over the archived shape
\* vector returns a box exactly when the fold over Vec<Shape> does, and then
\* the two boxes are the same.
C27_AggregatesAgree ==
    {"vec", "archived"} \subseteq ag_calls =>
        /\ (ag_archived.panic = "none") <=> (ag_vec.panic = "none")
        /\ ag_vec.panic = "none" =>
               ag_archived.min = ag_vec.min /\ ag_archived.max = ag_vec.max

\* C28: bbox() of a Polygon with an empty vertex list fails, and no call to
\* bbox() returns the box from (i32::MIN, i32::MIN) to (i32::MAX, i32::MAX).
C28_EmptyPolygonFails ==
    "bbox" \in sh_calls =>
        /\ (sh_shape.kind = "Polygon" /\ sh_shape.points = <<>>) => sh_bbox.panic /= "none"
        /\ ~ (/\ sh_bbox.panic = "none"
              /\ sh_bbox.min = P(I32Min, I32Min)
              /\ sh_bbox.max = P(I32Max, I32Max))

(***************************************************************************)
(* Properties of the tiled renderer.                                       *)
(***************************************************************************)
\* C29: a RenderingCompleteEvent is sent only in a run of despawn_system
\* that takes one render-done signal from the channel, one event for the
\* one signal; that run queues the despawn of every TextureCam entity and
\* leaves every LyonShape invisible; and the events sent never outnumber
\* the signals the callbacks have sent.
C29_CompleteOnlyOnSignal ==
    /\ [](rendering_complete_ev + rendering_done_channel = tiles_drawn - work_done_callbacks)
    /\ [][/\ rendering_complete_ev' /= rendering_complete_ev =>
              /\ rendering_complete_ev' = rendering_complete_ev + 1
              /\ "despawn_system" \notin frame_ran
              /\ "despawn_system" \in frame_ran'
              /\ rendering_done_channel' = rendering_done_channel - 1
              /\ commands'.despawn = texture_cams
              /\ \A i \in DOMAIN lyon_visible' : ~ lyon_visible'[i]
          /\ rendering_done_channel' < rendering_done_channel =>
              rendering_complete_ev' = rendering_complete_ev + 1]_vars

\* a run of despawn_system has sent the event and queued the despawn of the
\* two cameras of a drawn tile
C29_Witness ==
    /\ rendering_complete_ev = 1
    /\ tiles_drawn >= 1
    /\ "despawn_system" \in frame_ran
    /\ texture_cams >= 2
    /\ commands.despawn = texture_cams

\* C30: with every system run in every frame and every callback whose send
\* can proceed returning, each DrawTileEvent processed by
\* spawn_cameras_system is followed by a RenderingCompleteEvent of its own:
\* the n-th processed event leads to the n-th RenderingCompleteEvent, and the
\* two counts are eventually equal for good.
C30_EveryTileCompletes ==
    /\ \A n \in 1..MaxDrawEvents : (tiles_drawn >= n) ~> (rendering_complete_ev >= n)
    /\ <>[](rendering_complete_ev = tiles_drawn)

====
